---- MODULE Spec2Model ----
(***************************************************************************)
(* Model of the uptest end-to-end test harness: manifest preparation       *)
(* (preparer.prepareManifests), plan building (tester.prepareConfig),      *)
(* rendering of the kuttl phase files (templates.Render) and the           *)
(* invocation of kuttl (tester.executeTests); and of the comparison of the  *)
(* versions of a CRD (crdschema.SelfDiff.GetBreakingChanges).              *)
(*                                                                         *)
(* Text is modelled as a sequence of one-character strings, so that        *)
(* strings.ToLower and strconv.Atoi are computed character by character.   *)
(***************************************************************************)
EXTENDS Integers, Sequences, FiniteSets, TLC

VARIABLES
    pc,             \* position of RunTest: "start", "prepared", "running", "done", "failed";
                    \* of a direct call of Render: "render", "rendered"
    testFilePaths,  \* preparer.testFilePaths: the ordered manifest paths
    fs,             \* the manifest files on disk: path -> documents, or NoFile
    options,        \* config.AutomatedTest
    envUpdate,      \* the UPTEST_UPDATE_PARAMETER environment variable
    diskFaulty,     \* whether os.WriteFile can fail in this run
    found,          \* <Directory>/case as the run found it: name -> content
    manifests,      \* []config.Manifest returned by prepareManifests
    tc,             \* *config.TestCase returned by prepareConfig
    examples,       \* []config.Resource returned by prepareConfig
    files,          \* the map returned by the latest call of templates.Render
    caseDir,        \* files of <Directory>/case: name -> content
    kuttl,          \* the kuttl invocation: [started, timeout]
    shell,          \* the commands of a rendered file run by kuttl: NotRun, or
                    \* [ran, file, env, exits, passed]
    err,            \* the error RunTest returns, "" when none
    visited,        \* the order in which the latest loop of Render over the map
                    \* fileTemplates visited the templates, <<>> when not recorded
    dpc,            \* position of GetBreakingChanges: "idle", "call", "loop",
                    \* "returned", "failed"
    crd,            \* SelfDiff.crd: the versions the CRD declares, in declared order
    selfDocs,       \* selfDocs of GetBreakingChanges: the version names of the documents
    prev,           \* prev of GetBreakingChanges
    diffMap,        \* diffMap of GetBreakingChanges: version name -> documents compared
    compared        \* the calls of schemaDiff so far: <<base, revision>> each

vars == <<pc, testFilePaths, fs, options, envUpdate, diskFaulty, found, manifests,
          tc, examples, files, caseDir, kuttl, shell, err,
          visited, dpc, crd, selfDocs, prev, diffMap, compared>>

\* the state of GetBreakingChanges
diffVars == <<dpc, crd, selfDocs, prev, diffMap, compared>>

\* what a run of uptest leaves alone
others == <<visited, diffVars>>

\* make(map[string]*diff.Diff)
NoDiffs == [v \in {} |-> <<>>]

\* no loop order recorded, GetBreakingChanges not called
Idle ==
    /\ visited = <<>>
    /\ dpc = "idle"
    /\ crd = <<>>
    /\ selfDocs = <<>>
    /\ prev = 0
    /\ diffMap = NoDiffs
    /\ compared = <<>>

-----------------------------------------------------------------------------
(* Bounds of the explored input space.                                     *)

MaxFiles == 2       \* longest list of manifest paths
MaxDocs == 2        \* most documents in one manifest file
MaxRes == 2         \* longest resource list handed to Render directly
MaxVersions == 3    \* most versions a CRD declares

-----------------------------------------------------------------------------
(* Text helpers.                                                           *)

UpperChars == <<"A","B","C","D","E","F","G","H","I","J","K","L","M",
                "N","O","P","Q","R","S","T","U","V","W","X","Y","Z">>
LowerChars == <<"a","b","c","d","e","f","g","h","i","j","k","l","m",
                "n","o","p","q","r","s","t","u","v","w","x","y","z">>
DigitChars == <<"0","1","2","3","4","5","6","7","8","9">>

IndexIn(c, chars) ==
    IF \E i \in DOMAIN chars : chars[i] = c
    THEN CHOOSE i \in DOMAIN chars : chars[i] = c
    ELSE 0

LowerChar(c) ==
    IF IndexIn(c, UpperChars) # 0 THEN LowerChars[IndexIn(c, UpperChars)] ELSE c

\* strings.ToLower
ToLower(s) == [i \in DOMAIN s |-> LowerChar(s[i])]

IsDigits(s) == Len(s) > 0 /\ \A i \in DOMAIN s : IndexIn(s[i], DigitChars) # 0

RECURSIVE DigitsValue(_)
DigitsValue(s) ==
    IF Len(s) = 0 THEN 0
    ELSE 10 * DigitsValue(SubSeq(s, 1, Len(s) - 1)) + (IndexIn(s[Len(s)], DigitChars) - 1)

\* strconv.Atoi: an optional sign followed by decimal digits, an error otherwise
AtoiBody(s) == IF Len(s) > 0 /\ s[1] \in {"+", "-"} THEN Tail(s) ELSE s
AtoiOk(s) == IsDigits(AtoiBody(s))
AtoiValue(s) ==
    IF Len(s) > 0 /\ s[1] = "-" THEN 0 - DigitsValue(AtoiBody(s))
    ELSE DigitsValue(AtoiBody(s))

\* strings.Split(v, ","), on text without empty input
RECURSIVE SplitComma(_)
SplitComma(s) ==
    IF \E i \in DOMAIN s : s[i] = ","
    THEN LET i == CHOOSE k \in DOMAIN s : s[k] = "," /\ \A j \in 1..(k - 1) : s[j] # ","
         IN  <<SubSeq(s, 1, i - 1)>> \o SplitComma(SubSeq(s, i + 1, Len(s)))
    ELSE <<s>>

RECURSIVE Flatten(_)
Flatten(ss) == IF Len(ss) = 0 THEN <<>> ELSE Head(ss) \o Flatten(Tail(ss))

SelectIdx(s, Test(_)) == SelectSeq([i \in DOMAIN s |-> i], Test)

Range(s) == {s[i] : i \in DOMAIN s}

\* all orders in which a Go map with the key set S can be iterated
Orders(S) == {o \in [1..Cardinality(S) -> S] : Range(o) = S}

-----------------------------------------------------------------------------
(* Annotation keys (config package) and fixed texts.                       *)

AnnotationKeyTimeout == "uptest.upbound.io/timeout"
AnnotationKeyConditions == "uptest.upbound.io/conditions"
AnnotationKeyPreAssertHook == "uptest.upbound.io/pre-assert-hook"
AnnotationKeyPostAssertHook == "uptest.upbound.io/post-assert-hook"
AnnotationKeyPreDeleteHook == "uptest.upbound.io/pre-delete-hook"
AnnotationKeyPostDeleteHook == "uptest.upbound.io/post-delete-hook"
AnnotationKeyUpdateParameter == "uptest.upbound.io/update-parameter"
AnnotationKeyManualIntervention == "upjet.upbound.io/manual-intervention"

\* a path that cannot be read, and the unset environment variable / hook path
NoFile == [exists |-> FALSE]
File(docs) == [exists |-> TRUE, docs |-> docs]
EnvUnset == [t |-> "unset"]
NoPath == <<>>
NilTestCase == [nil |-> TRUE]

KindBucket == <<"B","u","c","k","e","t">>
GroupS3 == <<"s","3",".","a","w","s",".","u","p","b","o","u","n","d",".","i","o">>
KindCluster == <<"C","l","u","s","t","e","r">>
GroupPlatform == <<"g","c","p",".","p","l","a","t","f","o","r","m","r","e","f",".","u","p","b","o","u","n","d",".","i","o">>
KindSecret == <<"S","e","c","r","e","t">>
GroupCore == <<>>
SecretKindGroup == <<"s","e","c","r","e","t",".">>

\* JSON texts are modelled by what encoding/json makes of them: text that is
\* no JSON at all, or the JSON value the text denotes.
JSONInvalid == [t |-> "invalid"]
JSONString(v) == [t |-> "string", v |-> v]
JSONObject(m) == [t |-> "object", m |-> m]
JSONSize == JSONObject([spec |-> JSONObject([forProvider |-> JSONObject([size |-> JSONString("large")])])])
JSONTags == JSONObject([tags |-> JSONObject([uptest |-> JSONString("true")])])
\* {"tags":{"owner":"ci","uptest":"true"}}: an object with two keys at one level
JSONMulti ==
    JSONObject([tags |-> JSONObject([owner |-> JSONString("ci"), uptest |-> JSONString("true")])])

-----------------------------------------------------------------------------
(* The manifest documents the explored files are made of.                  *)

Doc(group, version, kind, name, namespace, ann) ==
    [decodes |-> TRUE, group |-> group, version |-> version, kind |-> kind,
     name |-> name, namespace |-> namespace, ann |-> ann]

NoAnn == [k \in {} |-> <<>>]

DocBucket == Doc(GroupS3, "v1beta1", KindBucket, "example-bucket", "", NoAnn)
DocBucketSlow ==
    Doc(GroupS3, "v1beta1", KindBucket, "slow-bucket", "",
        (AnnotationKeyTimeout :> <<"2","0">>)
        @@ (AnnotationKeyPreAssertHook :> "pre-assert.sh")
        @@ (AnnotationKeyPostDeleteHook :> "post-delete.sh"))
DocClaim ==
    Doc(GroupPlatform, "v1alpha1", KindCluster, "test-cluster-claim", "upbound-system",
        (AnnotationKeyTimeout :> <<"5">>)
        @@ (AnnotationKeyConditions :> <<"R","e","a","d","y",",","S","y","n","c","e","d">>)
        @@ (AnnotationKeyPostAssertHook :> "post-assert.sh")
        @@ (AnnotationKeyPreDeleteHook :> "pre-delete.sh")
        @@ (AnnotationKeyUpdateParameter :> JSONSize))
DocSecret == Doc(GroupCore, "v1", KindSecret, "test-secret", "upbound-system", NoAnn)
DocManual ==
    Doc(GroupS3, "v1beta1", KindBucket, "manual-bucket", "",
        (AnnotationKeyManualIntervention :> "needs a manual step")
        @@ (AnnotationKeyTimeout :> <<"1","h">>))
DocBadTimeout ==
    Doc(GroupS3, "v1beta1", KindBucket, "bad-timeout", "",
        (AnnotationKeyTimeout :> <<"1","h">>))
DocBadUpdate ==
    Doc(GroupS3, "v1beta1", KindBucket, "bad-update", "",
        (AnnotationKeyUpdateParameter :> JSONInvalid))
\* a document the YAML/JSON decoder rejects
DocGarbage == [decodes |-> FALSE]

Catalogue == {DocBucket, DocBucketSlow, DocClaim, DocSecret, DocManual,
              DocBadTimeout, DocBadUpdate, DocGarbage}

PathA == "/w/s3/a.yaml"
PathB == "/w/gcp/b.yaml"
Paths == {PathA, PathB}
\* filepath.Dir
Dir(path) == IF path = PathA THEN "/w/s3" ELSE "/w/gcp"

SeqsUpTo(S, n) == UNION {[1..k -> S] : k \in 0..n}
FileContents == {File(docs) : docs \in SeqsUpTo(Catalogue, MaxDocs)} \cup {NoFile}
PathLists == SeqsUpTo(Paths, MaxFiles) \ {<<>>}

-----------------------------------------------------------------------------
(* preparer.prepareManifests and preparer.injectVariables.                 *)

\* injectVariables: reads every path of the list in order into a Go map keyed
\* by the path (a path given twice is one key); fails on the first unreadable
\* file. The explored documents hold no ${data.*} or ${Rand.*} placeholder, so
\* injectValues leaves them as they are.
InjectVariables(paths, disk) ==
    IF \E i \in DOMAIN paths : ~disk[paths[i]].exists
    THEN [err |-> "cannot inject variables", inputs |-> <<>>]
    ELSE [err |-> "", inputs |-> [p \in Range(paths) |-> disk[p].docs]]

\* yaml.Marshal(u): the serialized text of the object, one text per object
Marshal(u) == <<"yaml", u.kind, u.name, u.namespace>>

\* the body of the decode loop for a decoded object: nothing for a document
\* that carries the manual-intervention annotation (continue), else its
\* config.Manifest
DecodedDocument(path, u) ==
    IF AnnotationKeyManualIntervention \in DOMAIN u.ann
    THEN <<>>
    ELSE <<[FilePath |-> path, Object |-> u, YAML |-> Marshal(u)]>>

\* DecodeFile with "break" in place of "continue": the documents after one
\* that needs a manual intervention are lost
DecodeFileStopsAtManual(path, data) ==
    LET manual == {i \in DOMAIN data : AnnotationKeyManualIntervention \in DOMAIN data[i].ann}
        stop == IF manual = {} THEN Len(data) + 1
                ELSE CHOOSE i \in manual : \A j \in manual : i <= j
    IN  Flatten([i \in 1..(stop - 1) |-> DecodedDocument(path, data[i])])

\* the manifests of one injected file, documents in file order
DecodeFile(path, data) ==
    Flatten([i \in DOMAIN data |-> DecodedDocument(path, data[i])])

\* the loop "for path, data := range injectedFiles" with the map visited in
\* the given order
DecodeAll(inputs, order) ==
    Flatten([k \in DOMAIN order |-> DecodeFile(order[k], inputs[order[k]])])

\* prepareManifests, for one iteration order of the injectedFiles map
PrepareManifestsIn(paths, disk, order) ==
    LET inj == InjectVariables(paths, disk) IN
    IF inj.err # ""
    THEN [err |-> inj.err, manifests |-> <<>>]
    ELSE IF \E p \in DOMAIN inj.inputs :
                \E i \in DOMAIN inj.inputs[p] : ~inj.inputs[p][i].decodes
    THEN [err |-> "cannot decode manifest", manifests |-> <<>>]
    ELSE [err |-> "", manifests |-> DecodeAll(inj.inputs, order)]

\* every result prepareManifests can return: Go leaves the iteration order of
\* a map unspecified
PrepareManifestsOutcomes(paths, disk) ==
    {PrepareManifestsIn(paths, disk, order) : order \in Orders(Range(paths))}

-----------------------------------------------------------------------------
(* tester.prepareConfig and convertToJSONPath.                             *)

\* convertToJSONPath: the loop returns at the first key the map iteration
\* yields, so every key of a level is a possible choice
RECURSIVE ConvertToJSONPath(_, _)

\* ConvertToJSONPath that does not descend into a nested object
ConvertToJSONPathFlat(data, currentPath) ==
    {<<currentPath \o <<".", key>>, IF data[key].t = "object" THEN "" ELSE data[key].v>>
     : key \in DOMAIN data}

ConvertToJSONPath(data, currentPath) ==
    IF DOMAIN data = {}
    THEN {<<currentPath, "">>}
    ELSE UNION {
           IF data[key].t = "object"
           THEN ConvertToJSONPath(data[key].m, currentPath \o <<".", key>>)
           ELSE {<<currentPath \o <<".", key>>, data[key].v>>}
           : key \in DOMAIN data}

\* json.Unmarshal into a map[string]interface{}
UnmarshalOk(text) == text.t = "object"

\* filepath.Abs(filepath.Join(filepath.Dir(m.FilePath), filepath.Clean(v)))
HookPath(m, key) ==
    IF key \in DOMAIN m.Object.ann THEN <<Dir(m.FilePath), m.Object.ann[key]>> ELSE NoPath

KindGroupOf(obj) == ToLower(obj.kind \o <<".">> \o obj.group)

\* ExampleError with the error of strconv.Atoi dropped
ExampleErrorIgnoresTimeout(m, opts, env) ==
    LET ann == m.Object.ann IN
    IF env # EnvUnset /\ ~UnmarshalOk(env) THEN "cannot unmarshal JSON"
    ELSE IF AnnotationKeyUpdateParameter \in DOMAIN ann
            /\ ~UnmarshalOk(ann[AnnotationKeyUpdateParameter])
    THEN "cannot unmarshal JSON"
    ELSE ""

\* the error, if any, of one pass of the loop body
ExampleError(m, opts, env) ==
    LET ann == m.Object.ann IN
    IF env # EnvUnset /\ ~UnmarshalOk(env) THEN "cannot unmarshal JSON"
    ELSE IF AnnotationKeyTimeout \in DOMAIN ann /\ ~AtoiOk(ann[AnnotationKeyTimeout])
    THEN "timeout value is not valid"
    ELSE IF AnnotationKeyUpdateParameter \in DOMAIN ann
            /\ ~UnmarshalOk(ann[AnnotationKeyUpdateParameter])
    THEN "cannot unmarshal JSON"
    ELSE ""

\* the update parameter in force: the annotation overrides the environment
UpdateParameterOf(m, env) ==
    IF AnnotationKeyUpdateParameter \in DOMAIN m.Object.ann
    THEN m.Object.ann[AnnotationKeyUpdateParameter]
    ELSE env

ExampleTimeout(m, opts) ==
    IF AnnotationKeyTimeout \in DOMAIN m.Object.ann
    THEN AtoiValue(m.Object.ann[AnnotationKeyTimeout])
    ELSE opts.DefaultTimeout

\* the config.Resource values one pass of the loop body can build
Examples(m, opts, env) ==
    LET obj == m.Object
        up == UpdateParameterOf(m, env)
        keys == IF up = EnvUnset THEN {<<<<>>, "">>} ELSE ConvertToJSONPath(up.m, <<>>)
    IN  {[Name |-> obj.name,
          Namespace |-> obj.namespace,
          KindGroup |-> KindGroupOf(obj),
          YAML |-> m.YAML,
          Timeout |-> ExampleTimeout(m, opts),
          Conditions |-> IF AnnotationKeyConditions \in DOMAIN obj.ann
                         THEN SplitComma(obj.ann[AnnotationKeyConditions])
                         ELSE opts.DefaultConditions,
          PreAssertScriptPath |-> HookPath(m, AnnotationKeyPreAssertHook),
          PostAssertScriptPath |-> HookPath(m, AnnotationKeyPostAssertHook),
          PreDeleteScriptPath |-> HookPath(m, AnnotationKeyPreDeleteHook),
          PostDeleteScriptPath |-> HookPath(m, AnnotationKeyPostDeleteHook),
          UpdateParameter |-> up,
          UpdateAssertKey |-> kv[1],
          UpdateAssertValue |-> kv[2],
          SkipImport |-> FALSE,
          Root |-> FALSE] : kv \in keys}

\* IsPlanned with the Secret skip of the earlier tester
IsPlannedNoSecret(m) ==
    ~(m.Object.group = <<>> /\ m.Object.version = "v1" /\ m.Object.kind = KindSecret)

\* the manifests prepareConfig turns into resources: all of them
IsPlanned(m) == TRUE

\* RaiseTimeout without the comparison: the last annotated resource wins
RaiseTimeoutLastWins(tcTimeout, m, opts) ==
    IF AnnotationKeyTimeout \in DOMAIN m.Object.ann
    THEN ExampleTimeout(m, opts)
    ELSE tcTimeout

\* tc.Timeout after the pass for a resource with the given timeout
RaiseTimeout(tcTimeout, m, opts) ==
    IF AnnotationKeyTimeout \in DOMAIN m.Object.ann
       /\ ExampleTimeout(m, opts) > tcTimeout
    THEN ExampleTimeout(m, opts)
    ELSE tcTimeout

NewTestCase(opts) ==
    [Timeout |-> opts.DefaultTimeout,
     SetupScriptPath |-> opts.SetupScriptPath,
     TeardownScriptPath |-> opts.TeardownScriptPath,
     SkipUpdate |-> FALSE,
     SkipImport |-> FALSE,
     OnlyCleanUptestResources |-> FALSE]

\* the loop over t.manifests from manifest i on; returns at the first error
RECURSIVE PrepareConfigFrom(_, _, _, _, _, _)
PrepareConfigFrom(ms, i, tcv, exs, opts, env) ==
    IF i > Len(ms)
    THEN {[err |-> "", tc |-> tcv, examples |-> exs]}
    ELSE IF ~IsPlanned(ms[i])
    THEN PrepareConfigFrom(ms, i + 1, tcv, exs, opts, env)
    ELSE IF ExampleError(ms[i], opts, env) # ""
    THEN {[err |-> ExampleError(ms[i], opts, env), tc |-> NilTestCase, examples |-> <<>>]}
    ELSE UNION {PrepareConfigFrom(ms, i + 1,
                    [tcv EXCEPT !.Timeout = RaiseTimeout(tcv.Timeout, ms[i], opts)],
                    Append(exs, ex), opts, env)
                : ex \in Examples(ms[i], opts, env)}

PrepareConfig(ms, opts, env) ==
    PrepareConfigFrom(ms, 1, NewTestCase(opts), <<>>, opts, env)

-----------------------------------------------------------------------------
(* templates.Render and the eight phase templates.  A rendered file is the  *)
(* sequence of its entries: commands, manifest texts and separators.       *)

FileNames == {"00-apply.yaml", "00-assert.yaml", "01-update.yaml", "01-assert.yaml",
              "02-import.yaml", "02-assert.yaml", "03-delete.yaml", "03-assert.yaml"}

\* the timeout every "kubectl wait" of the templates is given, in seconds
WaitTimeoutSeconds == 10

\* NamespaceQualifier without the test for an empty namespace
NamespaceQualifierAlways(r) == <<"--namespace", r.Namespace>>

\* {{ if $resource.Namespace }} --namespace {{ $resource.Namespace }}{{ end }}
NamespaceQualifier(r) ==
    IF r.Namespace = "" THEN <<>> ELSE <<"--namespace", r.Namespace>>

\* one command entry; a field that does not apply is empty
Command(op, r, arg, timeout) ==
    [op |-> op, kg |-> r.KindGroup, name |-> r.Name, ns |-> r.Namespace,
     qualifier |-> NamespaceQualifier(r), arg |-> arg, timeout |-> timeout]
NoResource == [KindGroup |-> <<>>, Name |-> "", Namespace |-> ""]
Global(op, arg, timeout) == Command(op, NoResource, arg, timeout)

Separator == [op |-> "---"]
ManifestText(r) == [op |-> "manifest", text |-> r.YAML]
IsCommand(e) == e.op \notin {"---", "manifest"}

\* SkippedByTemplates without the Secret test
SkippedNever(r) == FALSE

\* {{ if eq $resource.KindGroup "secret." }}{{ continue }}{{ end }}
SkippedByTemplates(r) == r.KindGroup = SecretKindGroup

PerResource(rs, Entries(_)) == Flatten([i \in DOMAIN rs |-> Entries(rs[i])])

Hook(path) == IF path = NoPath THEN <<>> ELSE <<Global("hook", path, 0)>>

\* 00-apply.yaml
ApplySetup(tcv) ==
    IF tcv.SetupScriptPath = "" THEN <<>>
    ELSE <<Global("script", tcv.SetupScriptPath, 0)>>
ApplyEntry(r) == <<Separator, ManifestText(r)>>
RenderApply(tcv, rs) == ApplySetup(tcv) \o PerResource(rs, ApplyEntry)

\* 00-assert.yaml
WaitCondition(r, cond) == Command("wait-condition", r, cond, WaitTimeoutSeconds)

\* AssertEntry with both hooks run before the waits
AssertEntryHooksFirst(r) ==
    IF SkippedByTemplates(r) THEN <<>>
    ELSE Hook(r.PreAssertScriptPath)
         \o Hook(r.PostAssertScriptPath)
         \o [k \in DOMAIN r.Conditions |-> WaitCondition(r, r.Conditions[k])]

AssertEntry(r) ==
    IF SkippedByTemplates(r) THEN <<>>
    ELSE Hook(r.PreAssertScriptPath)
         \o [k \in DOMAIN r.Conditions |-> WaitCondition(r, r.Conditions[k])]
         \o Hook(r.PostAssertScriptPath)
RenderAssert(tcv, rs) ==
    <<Global("annotate-all", "upjet.upbound.io/test=true", 0),
      Global("dump-managed", "apply", 0),
      Global("dump-claims", "apply", 0)>>
    \o PerResource(rs, AssertEntry)

\* 01-update.yaml: a TestStep without commands
RenderUpdate(tcv, rs) == <<>>

\* 01-assert.yaml
UpdateAssertEntry(r) ==
    IF SkippedByTemplates(r) \/ r.UpdateAssertKey = <<>> THEN <<>>
    ELSE <<Command("assert-value", r, <<r.UpdateAssertKey, r.UpdateAssertValue>>, 0)>>
RenderAssertUpdated(tcv, rs) ==
    <<Global("dump-managed", "update", 0)>> \o PerResource(rs, UpdateAssertEntry)

\* Imported without the SkipImport test
ImportedIgnoresSkipImport(r) == ~SkippedByTemplates(r) /\ r.Namespace = ""

\* the resources the import step handles: no Secret, no namespaced resource
\* (a claim), none with SkipImport
Imported(r) == ~SkippedByTemplates(r) /\ r.Namespace = "" /\ ~r.SkipImport

\* 02-import.yaml
ImportEntry(r) ==
    IF ~Imported(r) THEN <<>>
    ELSE <<Command("patch-status", r, "conditions=[]", 0),
           Command("annotate-old-id", r, "uptest-old-id", 0)>>
RenderImport(tcv, rs) ==
    <<Global("scale-crossplane", "replicas=0", 0),
      Global("scale-providers", "replicas=0", 0)>>
    \o PerResource(rs, ImportEntry)
    \o <<Global("scale-crossplane", "replicas=1", 0),
         Global("scale-providers", "replicas=1", 0)>>

\* 02-assert.yaml
AssertImportedEntry(r) ==
    IF ~Imported(r) THEN <<>>
    ELSE [k \in DOMAIN r.Conditions |-> WaitCondition(r, r.Conditions[k])]
         \o <<Command("compare-id", r, "uptest-old-id", 0)>>
RenderAssertImported(tcv, rs) ==
    <<Global("dump-managed", "import", 0)>> \o PerResource(rs, AssertImportedEntry)

\* 03-delete.yaml

\* DeleteEntry with both hooks run after the delete
DeleteEntryHooksAfter(r) ==
    IF SkippedByTemplates(r) THEN <<>>
    ELSE <<Command("delete", r, "--wait=false --ignore-not-found", 0)>>
         \o Hook(r.PreDeleteScriptPath)
         \o Hook(r.PostDeleteScriptPath)

DeleteEntry(r) ==
    IF SkippedByTemplates(r) THEN <<>>
    ELSE Hook(r.PreDeleteScriptPath)
         \o <<Command("delete", r, "--wait=false --ignore-not-found", 0)>>
         \o Hook(r.PostDeleteScriptPath)
RenderDelete(tcv, rs) == PerResource(rs, DeleteEntry)

\* 03-assert.yaml
AssertDeletedEntry(r) ==
    IF SkippedByTemplates(r) THEN <<>>
    ELSE <<Command("wait-delete", r, "", WaitTimeoutSeconds)>>

\* RenderAssertDeleted with the catch-all wait before the waits of the resources
RenderAssertDeletedCatchAllFirst(tcv, rs) ==
    <<Global("dump-managed", "delete", 0),
      Global("dump-claims", "delete", 0),
      Global("wait-delete-managed",
             IF tcv.OnlyCleanUptestResources THEN "uptest-marked" ELSE "--all",
             WaitTimeoutSeconds)>>
    \o PerResource(rs, AssertDeletedEntry)
    \o (IF tcv.TeardownScriptPath = "" THEN <<>>
        ELSE <<Global("script", tcv.TeardownScriptPath, 0)>>)

RenderAssertDeleted(tcv, rs) ==
    <<Global("dump-managed", "delete", 0),
      Global("dump-claims", "delete", 0)>>
    \o PerResource(rs, AssertDeletedEntry)
    \o <<Global("wait-delete-managed",
                IF tcv.OnlyCleanUptestResources THEN "uptest-marked" ELSE "--all",
                WaitTimeoutSeconds)>>
    \o (IF tcv.TeardownScriptPath = "" THEN <<>>
        ELSE <<Global("script", tcv.TeardownScriptPath, 0)>>)

\* the text of one template executed on the data; the TestAssert files carry
\* the test case timeout
Execute(name, tcv, rs) ==
    CASE name = "00-apply.yaml"  -> [timeout |-> 0, entries |-> RenderApply(tcv, rs)]
      [] name = "00-assert.yaml" -> [timeout |-> tcv.Timeout, entries |-> RenderAssert(tcv, rs)]
      [] name = "01-update.yaml" -> [timeout |-> 0, entries |-> RenderUpdate(tcv, rs)]
      [] name = "01-assert.yaml" -> [timeout |-> tcv.Timeout, entries |-> RenderAssertUpdated(tcv, rs)]
      [] name = "02-import.yaml" -> [timeout |-> 0, entries |-> RenderImport(tcv, rs)]
      [] name = "02-assert.yaml" -> [timeout |-> tcv.Timeout, entries |-> RenderAssertImported(tcv, rs)]
      [] name = "03-delete.yaml" -> [timeout |-> 0, entries |-> RenderDelete(tcv, rs)]
      [] name = "03-assert.yaml" -> [timeout |-> tcv.Timeout, entries |-> RenderAssertDeleted(tcv, rs)]

\* strings.HasPrefix(name, "01-") and so on
Phase(name) ==
    CASE name \in {"00-apply.yaml", "00-assert.yaml"} -> "00-"
      [] name \in {"01-update.yaml", "01-assert.yaml"} -> "01-"
      [] name \in {"02-import.yaml", "02-assert.yaml"} -> "02-"
      [] name \in {"03-delete.yaml", "03-assert.yaml"} -> "03-"

\* Rendered with the skipDelete test left out
RenderedIgnoresSkipDelete(name, tcv, skipDelete) ==
    /\ ~(tcv.SkipUpdate /\ Phase(name) = "01-")
    /\ ~(tcv.SkipImport /\ Phase(name) = "02-")

\* the templates the loop of Render does not skip
Rendered(name, tcv, skipDelete) ==
    /\ ~(tcv.SkipUpdate /\ Phase(name) = "01-")
    /\ ~(tcv.SkipImport /\ Phase(name) = "02-")
    /\ ~(skipDelete /\ Phase(name) = "03-")

\* Render: the map from file name to rendered text
Render(tcv, rs, skipDelete) ==
    [name \in {n \in FileNames : Rendered(n, tcv, skipDelete)} |-> Execute(name, tcv, rs)]

-----------------------------------------------------------------------------
(* The run: RunTest = prepareManifests, then executeTests                  *)
(* (writeKuttlFiles, then kuttl).                                          *)

CondReady == <<"R","e","a","d","y">>

DefaultTimeouts == {15}

OptionSet ==
    {[DefaultTimeout |-> t,
      DefaultConditions |-> <<CondReady>>,
      SetupScriptPath |-> "",
      TeardownScriptPath |-> "",
      SkipDelete |-> sd,
      OnlyCleanUptestResources |-> FALSE] : t \in DefaultTimeouts, sd \in BOOLEAN}

EnvValues == {EnvUnset, JSONTags, JSONInvalid, JSONMulti}

NotStarted == [started |-> FALSE, timeout |-> 0]
NotRun == [ran |-> FALSE]
NoFiles == [n \in {} |-> <<>>]

\* the files a run reads are the files its path list names
OnlyListed(paths, disk) ==
    \A p \in Paths \ Range(paths) : disk[p] = File(<<>>)

\* a run on a disk where writes succeed and without UPTEST_UPDATE_PARAMETER,
\* over the whole input space
InitHealthy ==
    /\ diskFaulty = FALSE
    /\ testFilePaths \in PathLists
    /\ fs \in [Paths -> FileContents]
    /\ OnlyListed(testFilePaths, fs)
    /\ options \in OptionSet
    /\ envUpdate = EnvUnset

\* a run with UPTEST_UPDATE_PARAMETER set, over the runs of one manifest file
InitEnv ==
    /\ diskFaulty = FALSE
    /\ testFilePaths = <<PathA>>
    /\ fs \in [Paths -> FileContents]
    /\ OnlyListed(testFilePaths, fs)
    /\ options \in OptionSet
    /\ envUpdate \in EnvValues \ {EnvUnset}

\* a run on a disk where a write can fail, over the runs of one manifest file
InitFaulty ==
    /\ diskFaulty = TRUE
    /\ testFilePaths = <<PathA>>
    /\ fs \in [Paths -> FileContents]
    /\ OnlyListed(testFilePaths, fs)
    /\ options \in OptionSet
    /\ envUpdate = EnvUnset

\* a run with --only-clean-uptest-resources, over the runs of one manifest file
InitOnlyClean ==
    /\ diskFaulty = FALSE
    /\ testFilePaths = <<PathA>>
    /\ fs \in [Paths -> FileContents]
    /\ OnlyListed(testFilePaths, fs)
    /\ options \in {[o EXCEPT !.OnlyCleanUptestResources = TRUE] : o \in OptionSet}
    /\ envUpdate = EnvUnset

\* the first run of a test directory: there is no case directory yet
Init ==
    /\ InitHealthy \/ InitEnv \/ InitFaulty \/ InitOnlyClean
    /\ found = NoFiles
    /\ pc = "start"
    /\ manifests = <<>>
    /\ tc = NilTestCase
    /\ examples = <<>>
    /\ files = NoFiles
    /\ caseDir = NoFiles
    /\ kuttl = NotStarted
    /\ shell = NotRun
    /\ err = ""
    /\ Idle

inputs == <<testFilePaths, fs, options, envUpdate, diskFaulty, found>>

\* RemoveAll that leaves the directory as it is
RemoveAllKeeps(dir) == dir

\* os.RemoveAll and os.MkdirAll of the case directory: an empty directory
RemoveAll(dir) == NoFiles

\* prepareManifests: the case directory is emptied, then the manifests are read
PrepareManifests ==
    /\ pc = "start"
    /\ caseDir' = RemoveAll(caseDir)
    /\ \E res \in PrepareManifestsOutcomes(testFilePaths, fs) :
          IF res.err # ""
          THEN /\ pc' = "failed"
               /\ err' = "cannot prepare manifests"
               /\ manifests' = <<>>
          ELSE /\ pc' = "prepared"
               /\ err' = ""
               /\ manifests' = res.manifests
    /\ UNCHANGED <<others, inputs, shell, tc, examples, files, kuttl>>

\* the timeout of the kuttl command line
KuttlTimeout(opts, tcv) == opts.DefaultTimeout

\* the directory after os.WriteFile of the given files
Written(dir, out, names) ==
    [n \in DOMAIN dir \cup names |-> IF n \in names THEN out[n] ELSE dir[n]]

\* executeTests: writeKuttlFiles (prepareConfig, Render, one os.WriteFile per
\* rendered file in map order), then the start of kuttl
ExecuteTests ==
    /\ pc = "prepared"
    /\ \E plan \in PrepareConfig(manifests, options, envUpdate) :
          IF plan.err # ""
          THEN /\ pc' = "failed"
               /\ err' = "cannot write kuttl test files"
               /\ UNCHANGED <<tc, examples, files, caseDir, kuttl>>
          ELSE LET out == Render(plan.tc, plan.examples, options.SkipDelete) IN
               /\ tc' = plan.tc
               /\ examples' = plan.examples
               /\ files' = out
               /\ \/ /\ caseDir' = Written(caseDir, out, DOMAIN out)
                     /\ kuttl' = [started |-> TRUE,
                                  timeout |-> KuttlTimeout(options, plan.tc)]
                     /\ pc' = "running"
                     /\ err' = ""
                  \/ /\ diskFaulty
                     /\ \E done \in (SUBSET DOMAIN out) \ {DOMAIN out} :
                           caseDir' = Written(caseDir, out, done)
                     /\ pc' = "failed"
                     /\ err' = "cannot write kuttl test files"
                     /\ UNCHANGED kuttl
    /\ UNCHANGED <<others, inputs, shell, manifests>>

\* kuttl exits: cmd.Wait() returns nil or the failure of the test
KuttlExit ==
    /\ pc = "running"
    /\ \E passed \in BOOLEAN :
          /\ pc' = "done"
          /\ err' = IF passed THEN "" ELSE "kuttl failed"
    /\ UNCHANGED <<others, inputs, shell, manifests, tc, examples, files, caseDir, kuttl>>

Next == PrepareManifests \/ ExecuteTests \/ KuttlExit

Spec == Init /\ [][Next]_vars

-----------------------------------------------------------------------------
(* Render called directly on a test case and a resource list, as the tests *)
(* of the templates package call it.                                       *)

\* the resource prepareConfig builds for a document of the given file
ResourceOf(path, doc) ==
    CHOOSE r \in Examples([FilePath |-> path, Object |-> doc, YAML |-> Marshal(doc)],
                          [DefaultTimeout |-> 15, DefaultConditions |-> <<CondReady>>],
                          EnvUnset) : TRUE

ResourceCatalogue ==
    {ResourceOf(PathA, DocBucket), ResourceOf(PathA, DocBucketSlow),
     ResourceOf(PathB, DocClaim), ResourceOf(PathB, DocSecret),
     [ResourceOf(PathA, DocBucket) EXCEPT !.Name = "kept-bucket", !.SkipImport = TRUE],
     [ResourceOf(PathA, DocBucketSlow) EXCEPT
         !.Name = "hooked-bucket",
         !.PostAssertScriptPath = <<Dir(PathA), "post-assert.sh">>,
         !.PreDeleteScriptPath = <<Dir(PathA), "pre-delete.sh">>]}

TestCases ==
    {[Timeout |-> 20,
      SetupScriptPath |-> IF scripts THEN "/tmp/setup.sh" ELSE "",
      TeardownScriptPath |-> IF scripts THEN "/tmp/teardown.sh" ELSE "",
      SkipUpdate |-> su,
      SkipImport |-> si,
      OnlyCleanUptestResources |-> oc]
     : scripts \in BOOLEAN, su \in BOOLEAN, si \in BOOLEAN, oc \in BOOLEAN}

InitRender ==
    /\ pc = "render"
    /\ tc \in TestCases
    /\ examples \in SeqsUpTo(ResourceCatalogue, MaxRes)
    /\ options \in OptionSet
    /\ testFilePaths = <<>>
    /\ fs = [p \in Paths |-> File(<<>>)]
    /\ envUpdate = EnvUnset
    /\ diskFaulty = FALSE
    /\ found = NoFiles
    /\ manifests = <<>>
    /\ files = NoFiles
    /\ caseDir = NoFiles
    /\ kuttl = NotStarted
    /\ shell = NotRun
    /\ err = ""
    /\ Idle

\* RenderCall that empties the resource list it was given
RenderCallConsumes ==
    /\ pc = "render"
    /\ files' = Render(tc, examples, options.SkipDelete)
    /\ examples' = <<>>
    /\ pc' = "rendered"
    /\ UNCHANGED <<others, inputs, shell, manifests, tc, caseDir, kuttl, err>>

\* a call of Render that returns the rendered files; Render reads the
\* test case and the resources, and assigns to neither
RenderCall ==
    /\ pc = "render"
    /\ files' = Render(tc, examples, options.SkipDelete)
    /\ pc' = "rendered"
    /\ UNCHANGED <<others, inputs, shell, manifests, tc, examples, caseDir, kuttl, err>>

SpecRender == InitRender /\ [][RenderCall]_vars

-----------------------------------------------------------------------------
(* Render called a second time on the same test case and resource list.    *)
(* The loop of Render ranges over the map fileTemplates, so the order in   *)
(* which the templates are visited differs from call to call.              *)

\* the file names in the order of the map literal
FileOrder == <<"00-apply.yaml", "00-assert.yaml", "01-update.yaml", "01-assert.yaml",
               "02-import.yaml", "02-assert.yaml", "03-delete.yaml", "03-assert.yaml">>

Rotate(o, k) == [i \in 1..Len(o) |-> o[((i + k - 1) % Len(o)) + 1]]
Reverse(o) == [i \in 1..Len(o) |-> o[Len(o) + 1 - i]]

\* the iteration orders explored: every template is visited first in one of
\* them and last in another, in both directions
VisitOrders ==
    {Rotate(FileOrder, k) : k \in 0..(Len(FileOrder) - 1)}
    \cup {Reverse(Rotate(FileOrder, k)) : k \in 0..(Len(FileOrder) - 1)}

\* res[name] = b.String()
Put(res, name, text) ==
    [n \in DOMAIN res \cup {name} |-> IF n = name THEN text ELSE res[n]]

RECURSIVE RenderLoop(_, _, _, _, _, _)
RECURSIVE RenderLoopBreaks(_, _, _, _, _, _)

\* RenderLoop that leaves the loop at the first template it skips
RenderLoopBreaks(order, i, res, tcv, rs, skipDelete) ==
    IF i > Len(order) THEN res
    ELSE IF ~Rendered(order[i], tcv, skipDelete) THEN res
    ELSE RenderLoopBreaks(order, i + 1, Put(res, order[i], Execute(order[i], tcv, rs)),
                          tcv, rs, skipDelete)

\* the loop of Render from the i-th template of the order on: a skipped
\* template is passed over, any other is executed and stored under its name
RenderLoop(order, i, res, tcv, rs, skipDelete) ==
    IF i > Len(order) THEN res
    ELSE IF ~Rendered(order[i], tcv, skipDelete)
         THEN RenderLoop(order, i + 1, res, tcv, rs, skipDelete)
    ELSE RenderLoop(order, i + 1, Put(res, order[i], Execute(order[i], tcv, rs)),
                    tcv, rs, skipDelete)

\* Render when the map fileTemplates is iterated in the given order
RenderVisiting(order, tcv, rs, skipDelete) ==
    RenderLoop(order, 1, NoFiles, tcv, rs, skipDelete)

\* Render returns nil and an error: a template does not parse or its
\* execution on the data fails
RenderError ==
    /\ pc = "render"
    /\ pc' = "failed"
    /\ err' = "cannot render kuttl templates"
    /\ UNCHANGED <<others, inputs, shell, manifests, tc, examples, files, caseDir, kuttl>>

\* the second call of Render on the same arguments
RenderAgain ==
    /\ pc = "rendered"
    /\ \E order \in VisitOrders :
          /\ visited' = order
          /\ files' = RenderVisiting(order, tc, examples, options.SkipDelete)
    /\ pc' = "rerendered"
    /\ UNCHANGED <<diffVars, inputs, shell, manifests, tc, examples, caseDir, kuttl, err>>

NextRerender == RenderCall \/ RenderError \/ RenderAgain

SpecRerender == InitRender /\ [][NextRerender]_vars

-----------------------------------------------------------------------------
(* kuttl runs the commands of a rendered file: each "command:" or          *)
(* "script:" entry is run, and a command that exits with a status other    *)
(* than 0 fails the step (no entry sets ignoreFailure).                    *)

\* the text of a command as a shell list: simple commands, each with the
\* operator that joins it to the next one
ScriptOf(e) ==
    CASE e.op = "dump-managed" ->
            \* echo "Dump MR manifests ..."; ${KUBECTL} get managed -o yaml
            <<[cmd |-> "echo", next |-> ";"], [cmd |-> "get managed", next |-> ""]>>
      [] e.op = "dump-claims" ->
            \* echo "Dump Claim manifests ..." || ${KUBECTL} get claim --all-namespaces -o yaml
            <<[cmd |-> "echo", next |-> "||"], [cmd |-> "get claim", next |-> ""]>>
      [] e.op = "hook" ->
            \* the path of the hook script
            <<[cmd |-> "hook", next |-> ""]>>
      [] OTHER -> <<[cmd |-> "kubectl", next |-> ""]>>

\* the cluster and the disk at the time the commands run
StepEnvs ==
    [listingFails : BOOLEAN, hookMissing : BOOLEAN, hookFails : BOOLEAN]

\* the exit status of one simple command
SimpleExit(cmd, env) ==
    CASE cmd = "echo" -> 0
      [] cmd \in {"get managed", "get claim"} -> IF env.listingFails THEN 1 ELSE 0
      [] cmd = "hook" -> IF env.hookMissing THEN 127
                         ELSE IF env.hookFails THEN 1 ELSE 0
      [] OTHER -> 0

\* the exit status of a shell list: a command after ";" always runs, after
\* "||" only when the status so far is not 0, after "&&" only when it is 0
RECURSIVE ShellExit(_, _, _, _)
ShellExit(list, i, status, env) ==
    IF i > Len(list) THEN status
    ELSE LET runs == \/ i = 1
                     \/ list[i - 1].next = ";"
                     \/ list[i - 1].next = "||" /\ status # 0
                     \/ list[i - 1].next = "&&" /\ status = 0
         IN  ShellExit(list, i + 1,
                       IF runs THEN SimpleExit(list[i].cmd, env) ELSE status, env)

\* the exit status of each entry of a file; a manifest is no command
KuttlStep(entries, env) ==
    [k \in DOMAIN entries |->
        IF IsCommand(entries[k]) THEN ShellExit(ScriptOf(entries[k]), 1, 0, env) ELSE 0]

RunStep ==
    /\ pc = "rendered"
    /\ \E n \in DOMAIN files, env \in StepEnvs :
          LET exits == KuttlStep(files[n].entries, env) IN
          shell' = [ran |-> TRUE, file |-> n, env |-> env, exits |-> exits,
                    passed |-> \A k \in DOMAIN exits : exits[k] = 0]
    /\ pc' = "stepped"
    /\ UNCHANGED <<others, inputs, manifests, tc, examples, files, caseDir, kuttl, err>>

NextSteps == RenderCall \/ RunStep

SpecSteps == InitRender /\ [][NextSteps]_vars

-----------------------------------------------------------------------------
(* Runs of uptest one after the other on the same test directory, on a     *)
(* disk where writes succeed.                                              *)

RunDocs == {DocBucket, DocSecret, DocBadTimeout}

\* the manifest file of a run
RunDisk(docs) == [p \in Paths |-> IF p = PathA THEN File(docs) ELSE File(<<>>)]

InitRuns ==
    /\ pc = "start"
    /\ testFilePaths = <<PathA>>
    /\ \E docs \in SeqsUpTo(RunDocs, MaxDocs) : fs = RunDisk(docs)
    /\ options \in OptionSet
    /\ envUpdate = EnvUnset
    /\ diskFaulty = FALSE
    /\ found = NoFiles
    /\ manifests = <<>>
    /\ tc = NilTestCase
    /\ examples = <<>>
    /\ files = NoFiles
    /\ caseDir = NoFiles
    /\ kuttl = NotStarted
    /\ shell = NotRun
    /\ err = ""
    /\ Idle

\* uptest is started again after a run has ended, with the same test
\* directory and any manifests and options; the case directory is what the
\* run before left
NextRun ==
    /\ pc \in {"done", "failed"}
    /\ pc' = "start"
    /\ testFilePaths' = <<PathA>>
    /\ \E docs \in SeqsUpTo(RunDocs, MaxDocs) : fs' = RunDisk(docs)
    /\ options' \in OptionSet
    /\ found' = caseDir
    /\ manifests' = <<>>
    /\ tc' = NilTestCase
    /\ examples' = <<>>
    /\ files' = NoFiles
    /\ kuttl' = NotStarted
    /\ err' = ""
    /\ UNCHANGED <<others, envUpdate, diskFaulty, caseDir, shell>>

NextRuns == PrepareManifests \/ ExecuteTests \/ KuttlExit \/ NextRun

SpecRuns == InitRuns /\ [][NextRuns]_vars

-----------------------------------------------------------------------------
(* crdschema.SelfDiff.GetBreakingChanges: the schemas of the consecutive   *)
(* versions of one CRD are compared, each with the next.                   *)

\* the version names explored, in string order
VersionNames == <<"v1", "v1alpha1", "v1beta1", "v2">>

\* a version of crd.Spec.Versions: its name, and whether it has a schema
Versions == [Name : Range(VersionNames), HasSchema : BOOLEAN]

\* v < w on strings
StringLess(v, w) ==
    IndexIn(v, VersionNames) < IndexIn(w, VersionNames)

\* semver.IsValid: "v" and a major number, then nothing or ".minor...";
\* "v1beta1" is no semantic version
IsValid(v) == v \in {"v1", "v2"}

\* semver.Major as a number
Major(v) == IF v = "v1" THEN 1 ELSE 2

\* semver.Compare: an invalid version is less than a valid one, and two
\* invalid versions are equal
Compare(v, w) ==
    IF ~IsValid(v) /\ ~IsValid(w) THEN 0
    ELSE IF ~IsValid(v) THEN -1
    ELSE IF ~IsValid(w) THEN 1
    ELSE IF Major(v) < Major(w) THEN -1
    ELSE IF Major(v) > Major(w) THEN 1
    ELSE 0

\* semver.ByVersion.Less: Compare, and the strings when it says equal
Less(v, w) ==
    IF Compare(v, w) # 0 THEN Compare(v, w) < 0 ELSE StringLess(v, w)

\* v put into the sorted list s
InsertSorted(v, s) ==
    LET k == Cardinality({i \in DOMAIN s : Less(s[i], v)})
    IN  SubSeq(s, 1, k) \o <<v>> \o SubSeq(s, k + 1, Len(s))

\* semver.Sort; the sorted rest is a value computed once
RECURSIVE SemverSort(_)
SemverSort(names) ==
    IF names = <<>> THEN <<>>
    ELSE CHOOSE sorted \in {InsertSorted(Head(names), rest) :
                                rest \in {SemverSort(Tail(names))}} : TRUE

\* versions[i], versions[j] = versions[j], versions[i]
Swap(versions, i, j) ==
    [k \in DOMAIN versions |->
        IF k = i THEN versions[j] ELSE IF k = j THEN versions[i] ELSE versions[k]]

\* one pass of the outer loop of sortVersions: the first document with the
\* name v is swapped to position i
SwapFirst(versions, v, i) ==
    LET js == {j \in DOMAIN versions : versions[j].Version = v}
    IN  IF js = {} THEN versions
        ELSE Swap(versions, i, CHOOSE j \in js : \A k \in js : j <= k)

\* the loop of sortVersions from the i-th sorted name on; the list after a
\* pass is a value computed once
RECURSIVE SwapLoop(_, _, _)
SwapLoop(versions, versionNames, i) ==
    IF i > Len(versionNames) THEN versions
    ELSE CHOOSE out \in {SwapLoop(swapped, versionNames, i + 1) :
                             swapped \in {SwapFirst(versions, versionNames[i], i)}} : TRUE

\* sortVersions
SortVersions(versions) ==
    CHOOSE out \in {SwapLoop(docs, names, 1) :
                        docs \in {versions},
                        names \in {SemverSort([k \in DOMAIN versions |-> versions[k].Version])}} : TRUE

\* getOpenAPIv3Document: one document per version, in declared order; a
\* version without schema is an error. Origin tells the documents of two
\* versions of the same name apart, as the pointers do.
GetOpenAPIv3Document(c) ==
    IF \E i \in DOMAIN c : ~c[i].HasSchema
    THEN [ok |-> FALSE, docs |-> <<>>]
    ELSE [ok |-> TRUE,
          docs |-> [i \in DOMAIN c |-> [Version |-> c[i].Name, Origin |-> i]]]

\* a loop that never advances
NextPrevStuck(p) == p

\* prev++
NextPrev(p) == p + 1

\* the calls of schemaDiff followed in one call of GetBreakingChanges
MaxCalls == MaxVersions + 1

\* the state of a run of uptest, which GetBreakingChanges leaves alone
runVars == <<pc, inputs, manifests, tc, examples, files, caseDir, kuttl, shell, err,
             visited>>

InitDiff ==
    /\ pc = "idle"
    /\ testFilePaths = <<>>
    /\ fs = [p \in Paths |-> File(<<>>)]
    /\ options \in OptionSet
    /\ envUpdate = EnvUnset
    /\ diskFaulty = FALSE
    /\ found = NoFiles
    /\ manifests = <<>>
    /\ tc = NilTestCase
    /\ examples = <<>>
    /\ files = NoFiles
    /\ caseDir = NoFiles
    /\ kuttl = NotStarted
    /\ shell = NotRun
    /\ err = ""
    /\ visited = <<>>
    /\ dpc = "call"
    /\ crd \in SeqsUpTo(Versions, MaxVersions)
    /\ selfDocs = <<>>
    /\ prev = 0
    /\ diffMap = NoDiffs
    /\ compared = <<>>

\* GetBreakingChanges up to its loop: the documents, the early return for
\* fewer than two of them, sortVersions
GetDocuments ==
    /\ dpc = "call"
    /\ LET r == GetOpenAPIv3Document(crd) IN
       \/ /\ ~r.ok
          /\ dpc' = "failed"
          /\ UNCHANGED <<selfDocs, prev, diffMap>>
       \/ /\ r.ok
          /\ Len(r.docs) < 2
          /\ dpc' = "returned"
          /\ selfDocs' = r.docs
          /\ diffMap' = NoDiffs
          /\ UNCHANGED prev
       \/ /\ r.ok
          /\ ~(Len(r.docs) < 2)
          /\ dpc' = "loop"
          /\ selfDocs' = SortVersions(r.docs)
          /\ diffMap' = NoDiffs
          /\ prev' = 0
    /\ UNCHANGED <<runVars, crd, compared>>

\* one iteration of the loop: selfDocs[prev] is compared with selfDocs[prev+1]
\* (Go counts from 0); schemaDiff may fail
CompareNext ==
    /\ dpc = "loop"
    /\ prev < Len(selfDocs) - 1
    /\ Len(compared) < MaxCalls
    /\ LET baseDoc == selfDocs[prev + 1]
           revisionDoc == selfDocs[prev + 2]
       IN  /\ compared' = Append(compared, <<baseDoc, revisionDoc>>)
           /\ \E failed \in BOOLEAN :
                 IF failed
                 THEN /\ dpc' = "failed"
                      /\ UNCHANGED <<prev, diffMap>>
                 ELSE /\ diffMap' = Put(diffMap, revisionDoc.Version, <<baseDoc, revisionDoc>>)
                      /\ prev' = NextPrev(prev)
                      /\ UNCHANGED dpc
    /\ UNCHANGED <<runVars, crd, selfDocs>>

\* the loop condition is false: return diffMap, nil
ReturnDiffs ==
    /\ dpc = "loop"
    /\ ~(prev < Len(selfDocs) - 1)
    /\ dpc' = "returned"
    /\ UNCHANGED <<runVars, crd, selfDocs, prev, diffMap, compared>>

NextDiff == GetDocuments \/ CompareNext \/ ReturnDiffs

\* a call of GetBreakingChanges runs on: the function is sequential code
\* that no other code of the program can hold up
SpecDiff == InitDiff /\ [][NextDiff]_vars /\ WF_vars(NextDiff)

-----------------------------------------------------------------------------
(* Properties.                                                             *)

PlanBuilt == pc \in {"running", "done"} \/ (pc = "failed" /\ tc # NilTestCase)

SetMax(S) == CHOOSE x \in S : \A y \in S : y <= x

\* the distinct paths of a list, each at its first position
RECURSIVE FirstOccurrences(_)
FirstOccurrences(paths) ==
    IF Len(paths) = 0 THEN <<>>
    ELSE LET front == FirstOccurrences(SubSeq(paths, 1, Len(paths) - 1))
             last == paths[Len(paths)]
         IN  IF last \in Range(front) THEN front ELSE Append(front, last)

\* the documents of the listed files that are to be tested, files in the
\* order they were given and documents in file order
InInputOrder ==
    LET order == FirstOccurrences(testFilePaths) IN
    Flatten([k \in DOMAIN order |->
               SelectSeq(fs[order[k]].docs,
                         LAMBDA d : AnnotationKeyManualIntervention \notin DOMAIN d.ann)])

ManifestTexts(entries) ==
    LET at == SelectIdx(entries, LAMBDA i : entries[i].op = "manifest")
    IN  [k \in DOMAIN at |-> entries[at[k]].text]

\* C1: the manifests prepared, the resources of the plan and the manifest
\* texts of the apply phase are the documents in input order: files in the
\* order given, documents in file order.
C1_InputOrder ==
    /\ pc \in {"prepared", "running", "done"} =>
          /\ Len(manifests) = Len(InInputOrder)
          /\ \A i \in DOMAIN manifests : manifests[i].Object = InInputOrder[i]
    /\ pc \in {"running", "done"} =>
          /\ Len(examples) = Len(InInputOrder)
          /\ \A i \in DOMAIN examples : examples[i].YAML = Marshal(InInputOrder[i])
          /\ ManifestTexts(files["00-apply.yaml"].entries)
                = [i \in DOMAIN InInputOrder |-> Marshal(InInputOrder[i])]

\* C2: the timeout kuttl is started with is the effective timeout of the plan
\* and so at least the timeout of every resource.
C2_ExecutorTimeout ==
    kuttl.started =>
        /\ kuttl.timeout = tc.Timeout
        /\ \A i \in DOMAIN examples : kuttl.timeout >= examples[i].Timeout

\* C3: after plan building the effective timeout is the maximum of the default
\* timeout and the timeout of every resource, and the timeout of a resource is
\* its timeout annotation when it has one and the default timeout otherwise.
C3_EffectiveTimeout ==
    PlanBuilt =>
        /\ tc.Timeout = SetMax({options.DefaultTimeout}
                               \cup {examples[i].Timeout : i \in DOMAIN examples})
        /\ Len(examples) = Len(manifests)
        /\ \A i \in DOMAIN examples :
              LET ann == manifests[i].Object.ann IN
              examples[i].Timeout =
                  IF AnnotationKeyTimeout \in DOMAIN ann
                  THEN AtoiValue(ann[AnnotationKeyTimeout])
                  ELSE options.DefaultTimeout

\* a plan whose resources have a timeout above and a timeout below the default
C3_Witness ==
    /\ pc = "running"
    /\ \E i, j \in DOMAIN examples :
          /\ i < j
          /\ examples[i].Timeout > options.DefaultTimeout
          /\ examples[j].Timeout < options.DefaultTimeout

Addresses(e, r) == e.kg = r.KindGroup /\ e.name = r.Name /\ e.ns = r.Namespace

\* C4: every condition wait of the assert-apply phase has the timeout of the
\* resource it addresses.
C4_WaitUsesOwnTimeout ==
    pc \in {"running", "done"} =>
        LET entries == files["00-assert.yaml"].entries IN
        \A k \in DOMAIN entries :
            entries[k].op = "wait-condition" =>
                \A i \in DOMAIN examples :
                    Addresses(entries[k], examples[i]) =>
                        entries[k].timeout = examples[i].Timeout

\* C5: Render returns the files of the phases that are not skipped and no
\* other file: the apply files always, the update, import and delete files
\* unless the phase is skipped.
C5_FileNames ==
    pc = "rendered" =>
        DOMAIN files =
            {"00-apply.yaml", "00-assert.yaml"}
            \cup (IF tc.SkipUpdate THEN {} ELSE {"01-update.yaml", "01-assert.yaml"})
            \cup (IF tc.SkipImport THEN {} ELSE {"02-import.yaml", "02-assert.yaml"})
            \cup (IF options.SkipDelete THEN {} ELSE {"03-delete.yaml", "03-assert.yaml"})

\* Render called with the import and delete phases skipped, the update phase not
C5_Witness ==
    /\ pc = "rendered"
    /\ ~tc.SkipUpdate /\ tc.SkipImport /\ options.SkipDelete
    /\ Len(examples) > 0
    /\ "01-assert.yaml" \in DOMAIN files
    /\ "02-assert.yaml" \notin DOMAIN files

\* C6: a run in which no resource is left to test fails: no phase file is
\* written and kuttl is not started.
C6_EmptyPlanFails ==
    (pc \notin {"start", "prepared"} /\ Len(manifests) = 0) =>
        /\ pc = "failed"
        /\ DOMAIN caseDir = {}
        /\ ~kuttl.started

\* Object.GroupVersionKind().String() == "/v1, Kind=Secret"
IsCoreSecret(obj) == obj.group = <<>> /\ obj.version = "v1" /\ obj.kind = KindSecret

NonSecret(rs) == SelectSeq(rs, LAMBDA r : r.KindGroup # SecretKindGroup)
CommandCount(entries) == Len(SelectIdx(entries, LAMBDA i : IsCommand(entries[i])))

\* C8: no command of a rendered file addresses a resource whose kindGroup is
\* "secret.", and every file but the apply file has as many commands as it
\* has for the resource list without its Secret resources.
C8_NoSecretCommands ==
    pc = "rendered" =>
        \A n \in DOMAIN files :
            /\ \A k \in DOMAIN files[n].entries :
                  IsCommand(files[n].entries[k]) =>
                      files[n].entries[k].kg # SecretKindGroup
            /\ n # "00-apply.yaml" =>
                  CommandCount(files[n].entries)
                      = CommandCount(Execute(n, tc, NonSecret(examples)).entries)

\* Render called with all phases on a Secret and another resource
C8_Witness ==
    /\ pc = "rendered"
    /\ DOMAIN files = FileNames
    /\ \E i, j \in DOMAIN examples :
          /\ examples[i].KindGroup = SecretKindGroup
          /\ examples[j].KindGroup # SecretKindGroup

HasManual(d) == AnnotationKeyManualIntervention \in DOMAIN d.ann
Listed == Range(testFilePaths)
ListedDocs == UNION {Range(fs[p].docs) : p \in {q \in Listed : fs[q].exists}}
Readable == \A p \in Listed : fs[p].exists /\ \A d \in Range(fs[p].docs) : d.decodes

\* C9: a document with the manual-intervention annotation is no manifest of
\* the run and is in no rendered file, and it is no error: preparation fails
\* only for an unreadable file or an undecodable document, and the manifests
\* of each listed file are its other documents, all of them, in file order.
C9_ManualSkipped ==
    /\ (pc # "start" /\ Readable) =>
          /\ err # "cannot prepare manifests"
          /\ \A i \in DOMAIN manifests : ~HasManual(manifests[i].Object)
          /\ \A p \in Listed :
                LET at == SelectIdx(manifests, LAMBDA i : manifests[i].FilePath = p)
                IN  [k \in DOMAIN at |-> manifests[at[k]].Object]
                        = SelectSeq(fs[p].docs, LAMBDA d : ~HasManual(d))
    /\ \A n \in DOMAIN files : \A k \in DOMAIN files[n].entries :
          LET e == files[n].entries[k] IN
          \A d \in {x \in ListedDocs : x.decodes} :
              HasManual(d) =>
                  IF e.op = "manifest" THEN e.text # Marshal(d)
                  ELSE IsCommand(e) => e.name # d.name

\* a run of a file whose first document needs a manual intervention and whose
\* second does not
C9_Witness ==
    /\ pc = "running"
    /\ \E p \in Listed :
          /\ Len(fs[p].docs) = 2
          /\ HasManual(fs[p].docs[1])
          /\ ~HasManual(fs[p].docs[2])
          /\ \E i \in DOMAIN manifests : manifests[i].Object = fs[p].docs[2]

BadTimeout(obj) ==
    /\ AnnotationKeyTimeout \in DOMAIN obj.ann
    /\ LET v == obj.ann[AnnotationKeyTimeout]
           digits == IF Len(v) > 0 /\ v[1] \in {"+", "-"} THEN Tail(v) ELSE v
       IN  Len(digits) = 0 \/ \E i \in DOMAIN digits : digits[i] \notin Range(DigitChars)
BadUpdateParameter(obj) ==
    /\ AnnotationKeyUpdateParameter \in DOMAIN obj.ann
    /\ obj.ann[AnnotationKeyUpdateParameter].t # "object"
BadAnnotation ==
    \E i \in DOMAIN manifests :
        BadTimeout(manifests[i].Object) \/ BadUpdateParameter(manifests[i].Object)

\* C10: with a resource whose timeout annotation is no integer or whose
\* update-parameter is no JSON object, the run fails, the case directory
\* stays without phase file and kuttl is never started.
C10_BadAnnotationAborts ==
    (pc # "start" /\ BadAnnotation) =>
        /\ pc \in {"prepared", "failed"}
        /\ pc = "failed" => err # ""
        /\ DOMAIN caseDir = {}
        /\ ~kuttl.started

\* a failed run whose second resource has the bad annotation
C10_Witness ==
    /\ pc = "failed"
    /\ Len(manifests) = 2
    /\ ~BadTimeout(manifests[1].Object) /\ ~BadUpdateParameter(manifests[1].Object)
    /\ BadTimeout(manifests[2].Object) \/ BadUpdateParameter(manifests[2].Object)

\* the files of the phases a run of uptest renders: all of the apply, update
\* and import phases, and those of the delete phase unless it is skipped
ActiveFiles ==
    {"00-apply.yaml", "00-assert.yaml", "01-update.yaml", "01-assert.yaml",
     "02-import.yaml", "02-assert.yaml"}
    \cup (IF options.SkipDelete THEN {} ELSE {"03-delete.yaml", "03-assert.yaml"})

\* C11: once writeKuttlFiles has returned, with or without an error, the
\* case directory holds every phase file of the active phases or no phase
\* file at all.
C11_AllOrNothing ==
    (pc \in {"running", "done"} \/ (pc = "failed" /\ err = "cannot write kuttl test files")) =>
        \/ DOMAIN caseDir = {}
        \/ DOMAIN caseDir = ActiveFiles

Shape(e) ==
    IF e.op \in {"hook", "script"} THEN [op |-> e.op, path |-> e.arg]
    ELSE IF e.op \in {"wait-condition", "wait-delete", "delete"}
         THEN [op |-> e.op, kg |-> e.kg, name |-> e.name, ns |-> e.ns, arg |-> e.arg]
         ELSE [op |-> e.op]
Shapes(entries) == [k \in DOMAIN entries |-> Shape(entries[k])]

HookShape(path) == IF path = NoPath THEN <<>> ELSE <<[op |-> "hook", path |-> path]>>

\* the commands of one resource in the assert-apply phase
AssertApplyBlock(r) ==
    HookShape(r.PreAssertScriptPath)
    \o [k \in DOMAIN r.Conditions |->
          [op |-> "wait-condition", kg |-> r.KindGroup, name |-> r.Name,
           ns |-> r.Namespace, arg |-> r.Conditions[k]]]
    \o HookShape(r.PostAssertScriptPath)

\* C13: the commands of the assert-apply phase are the annotate-all command,
\* then the two diagnostic dumps, then for each resource in plan order (a
\* Secret has no commands, C8) its pre-assert hook if set, one wait for each
\* of its conditions in list order and its post-assert hook if set, the
\* commands of one resource in one block.
C13_AssertApplyOrder ==
    pc = "rendered" =>
        LET rs == NonSecret(examples) IN
        Shapes(files["00-assert.yaml"].entries)
            = <<[op |-> "annotate-all"], [op |-> "dump-managed"], [op |-> "dump-claims"]>>
              \o Flatten([i \in DOMAIN rs |-> AssertApplyBlock(rs[i])])

\* Render called on a resource with both assert hooks followed by a resource
\* with two conditions
C13_Witness ==
    /\ pc = "rendered"
    /\ Len(examples) = 2
    /\ examples[1].PreAssertScriptPath # NoPath
    /\ examples[1].PostAssertScriptPath # NoPath
    /\ Len(examples[2].Conditions) = 2
    /\ Len(files["00-assert.yaml"].entries) = 9

DeleteCommands(entries) == SelectSeq(entries, LAMBDA e : e.op = "delete")

\* C14: the delete commands of the delete phase address the resources of
\* the plan in the reverse of the apply order.
C14_ReverseDelete ==
    (pc = "rendered" /\ "03-delete.yaml" \in DOMAIN files) =>
        LET dels == DeleteCommands(files["03-delete.yaml"].entries)
            rs == NonSecret(examples)
        IN  /\ Len(dels) = Len(rs)
            /\ \A k \in DOMAIN dels : Addresses(dels[k], rs[Len(rs) + 1 - k])

\* C15: in the delete phase the pre-delete hook of a resource, when set, is
\* the command directly before the delete command of that resource and its
\* post-delete hook, when set, the command directly after it; the phase has
\* no other command, so a resource without delete hooks contributes its
\* delete command only.
C15_DeleteHooksAdjacent ==
    (pc = "rendered" /\ "03-delete.yaml" \in DOMAIN files) =>
        LET entries == files["03-delete.yaml"].entries
            at == SelectIdx(entries, LAMBDA i : entries[i].op = "delete")
            rs == NonSecret(examples)
        IN  /\ Len(at) = Len(rs)
            /\ Len(entries) = Len(rs)
                   + Len(SelectSeq(rs, LAMBDA r : r.PreDeleteScriptPath # NoPath))
                   + Len(SelectSeq(rs, LAMBDA r : r.PostDeleteScriptPath # NoPath))
            /\ \A k \in DOMAIN at :
                  LET i == at[k]
                      r == rs[k]
                  IN  /\ Addresses(entries[i], r)
                      /\ r.PreDeleteScriptPath # NoPath =>
                            /\ i > 1
                            /\ Shape(entries[i - 1]) = [op |-> "hook", path |-> r.PreDeleteScriptPath]
                      /\ r.PostDeleteScriptPath # NoPath =>
                            /\ i < Len(entries)
                            /\ Shape(entries[i + 1]) = [op |-> "hook", path |-> r.PostDeleteScriptPath]

\* Render called on a resource with both delete hooks, a resource without
\* delete hooks after it
C15_Witness ==
    /\ pc = "rendered"
    /\ "03-delete.yaml" \in DOMAIN files
    /\ Len(examples) = 2
    /\ examples[1].PreDeleteScriptPath # NoPath
    /\ examples[1].PostDeleteScriptPath # NoPath
    /\ examples[2].PreDeleteScriptPath = NoPath
    /\ examples[2].PostDeleteScriptPath = NoPath
    /\ examples[2].KindGroup # SecretKindGroup
    /\ Len(files["03-delete.yaml"].entries) = 4

Identity(r) == <<r.KindGroup, r.Name, r.Namespace>>
Addressee(e) == <<e.kg, e.name, e.ns>>
Identities(rs) == [i \in DOMAIN rs |-> Identity(rs[i])]
\* whom the commands of one kind address, in the order of the file
AddressedBy(entries, op) ==
    LET at == SelectIdx(entries, LAMBDA i : entries[i].op = op)
    IN  [k \in DOMAIN at |-> Addressee(entries[at[k]])]

ImportRendered == pc = "rendered" /\ "02-import.yaml" \in DOMAIN files

\* C16: in the import phase the scale-to-zero commands precede every
\* command of a resource, the command that stores the identifier of a
\* resource as its uptest-old-id annotation precedes the command that clears
\* the status of that resource, and the scale-to-one commands follow every
\* command of a resource.
C16_ImportOrder ==
    ImportRendered =>
        LET e == files["02-import.yaml"].entries
            IsScale(i, arg) ==
                e[i].op \in {"scale-crossplane", "scale-providers"} /\ e[i].arg = arg
            IsPer(i) == e[i].op \in {"patch-status", "annotate-old-id"}
        IN  /\ \A i, j \in DOMAIN e : (IsScale(i, "replicas=0") /\ IsPer(j)) => i < j
            /\ \A j \in DOMAIN e :
                  e[j].op = "patch-status" =>
                      \E i \in 1..(j - 1) :
                          /\ e[i].op = "annotate-old-id"
                          /\ Addressee(e[i]) = Addressee(e[j])
            /\ \A i, j \in DOMAIN e : (IsPer(i) /\ IsScale(j, "replicas=1")) => i < j

\* the import and assert-import files hold the commands of the resources rs,
\* each of them, and of no other resource
ImportHolds(rs) ==
    LET imp == files["02-import.yaml"].entries
        asr == files["02-assert.yaml"].entries
    IN  /\ AddressedBy(imp, "annotate-old-id") = Identities(rs)
        /\ AddressedBy(imp, "patch-status") = Identities(rs)
        /\ AddressedBy(asr, "compare-id") = Identities(rs)
        /\ \A k \in DOMAIN asr :
              /\ asr[k].op = "compare-id" =>
                    /\ k > 1
                    /\ asr[k - 1].op = "wait-condition"
                    /\ Addressee(asr[k - 1]) = Addressee(asr[k])
              /\ asr[k].op = "wait-condition" =>
                    \E j \in (k + 1)..Len(asr) :
                        /\ asr[j].op = "compare-id"
                        /\ Addressee(asr[j]) = Addressee(asr[k])
                        /\ \A i \in k..(j - 1) : asr[i].op = "wait-condition"

\* C17 as stated: the import and assert-import phases hold the commands of
\* exactly the resources that are no Secret and whose SkipImport is false.
C17_ImportFilter ==
    ImportRendered =>
        ImportHolds(SelectSeq(examples,
                        LAMBDA r : r.KindGroup # SecretKindGroup /\ ~r.SkipImport))

\* C17 amended: the import and assert-import phases hold the commands of
\* exactly the resources that are no Secret, have no namespace and whose
\* SkipImport is false: the identifier capture and the status clear in the
\* import phase, the condition waits followed by the comparison of the
\* identifier in the assert-import phase.
C17_ImportFilterClusterScoped ==
    ImportRendered =>
        ImportHolds(SelectSeq(examples,
                        LAMBDA r : /\ r.KindGroup # SecretKindGroup
                                   /\ r.Namespace = ""
                                   /\ ~r.SkipImport))

\* the import phase rendered for a resource with SkipImport and a resource
\* that is imported
C17_Witness ==
    /\ ImportRendered
    /\ Len(examples) = 2
    /\ examples[1].SkipImport /\ examples[1].KindGroup # SecretKindGroup
    /\ ~examples[2].SkipImport /\ examples[2].Namespace = ""
    /\ Len(AddressedBy(files["02-assert.yaml"].entries, "compare-id")) = 1

\* C18: the commands of the assert-delete phase are the two diagnostic
\* dumps, then one wait for deletion for each resource in plan order (a
\* Secret has none, C8), then the wait for the deletion of all managed
\* resources, then the teardown script as the last command when one is
\* configured and no teardown command otherwise.
C18_AssertDeleteOrder ==
    (pc = "rendered" /\ "03-assert.yaml" \in DOMAIN files) =>
        LET rs == NonSecret(examples) IN
        Shapes(files["03-assert.yaml"].entries)
            = <<[op |-> "dump-managed"], [op |-> "dump-claims"]>>
              \o [i \in DOMAIN rs |->
                    [op |-> "wait-delete", kg |-> rs[i].KindGroup, name |-> rs[i].Name,
                     ns |-> rs[i].Namespace, arg |-> ""]]
              \o <<[op |-> "wait-delete-managed"]>>
              \o (IF tc.TeardownScriptPath = "" THEN <<>>
                  ELSE <<[op |-> "script", path |-> tc.TeardownScriptPath]>>)

\* the assert-delete phase rendered for two different resources and a
\* teardown script
C18_Witness ==
    /\ pc = "rendered"
    /\ "03-assert.yaml" \in DOMAIN files
    /\ tc.TeardownScriptPath # ""
    /\ Len(NonSecret(examples)) = 2
    /\ examples[1].Name # examples[2].Name
    /\ Len(files["03-assert.yaml"].entries) = 6

\* C19: a diagnostic dump command never fails its phase: its exit status is
\* 0 whether the listing call it contains succeeds or fails.
C19_DumpBestEffort ==
    shell.ran =>
        \A k \in DOMAIN shell.exits :
            files[shell.file].entries[k].op \in {"dump-managed", "dump-claims"} =>
                shell.exits[k] = 0

\* C20: a hook command whose script file is missing at the time it runs
\* exits with status 0 and so does not fail its phase.
C20_MissingHookTolerated ==
    (shell.ran /\ shell.env.hookMissing) =>
        \A k \in DOMAIN shell.exits :
            files[shell.file].entries[k].op = "hook" => shell.exits[k] = 0

\* C21: the apply phase is the setup script and a separator when a setup
\* script is configured, then the manifest texts in plan order with one
\* separator between two manifests, and no separator before the first
\* manifest when no setup script is configured.
C21_ApplySeparators ==
    pc = "rendered" =>
        LET entries == files["00-apply.yaml"].entries
            setup == IF tc.SetupScriptPath = "" THEN <<>> ELSE <<[op |-> "script"]>>
            Text(i) == [op |-> "manifest", text |-> examples[i].YAML]
            Joined(i) == IF i = 1 /\ tc.SetupScriptPath = ""
                         THEN <<Text(i)>>
                         ELSE <<[op |-> "---"], Text(i)>>
        IN  [k \in DOMAIN entries |->
                IF entries[k].op = "manifest"
                THEN [op |-> "manifest", text |-> entries[k].text]
                ELSE [op |-> entries[k].op]]
            = setup \o Flatten([i \in DOMAIN examples |-> Joined(i)])

WaitAndDeleteOps == {"wait-condition", "wait-delete", "delete", "wait-delete-managed"}

\* C22: every wait and delete command of every file has the namespace
\* qualifier of the resource it addresses when that resource has a
\* namespace, and no namespace qualifier when the resource has none; the
\* wait for all managed resources has none.
C22_NamespaceQualifier ==
    pc = "rendered" =>
        \A n \in DOMAIN files : \A k \in DOMAIN files[n].entries :
            LET e == files[n].entries[k] IN
            (IsCommand(e) /\ e.op \in WaitAndDeleteOps) =>
                IF e.op = "wait-delete-managed"
                THEN e.qualifier = <<>>
                ELSE \E i \in DOMAIN examples :
                        /\ e.kg = examples[i].KindGroup /\ e.name = examples[i].Name
                        /\ IF examples[i].Namespace = ""
                           THEN e.qualifier = <<>>
                           ELSE e.qualifier = <<"--namespace", examples[i].Namespace>>

\* all files rendered for a resource without namespace followed by a
\* resource with a namespace
C22_Witness ==
    /\ pc = "rendered"
    /\ DOMAIN files = FileNames
    /\ Len(examples) = 2
    /\ examples[1].Namespace = "" /\ examples[1].KindGroup # SecretKindGroup
    /\ examples[2].Namespace # "" /\ examples[2].KindGroup # SecretKindGroup
    /\ \E k \in DOMAIN files["03-delete.yaml"].entries :
          files["03-delete.yaml"].entries[k].qualifier = <<"--namespace", examples[2].Namespace>>

\* C23: a plan that was built holds no two resources with the same
\* kindGroup, name and namespace: manifests with two resources of one
\* identity make plan building fail.
C23_UniqueIdentities ==
    /\ pc \in {"running", "done"} =>
          \A i, j \in DOMAIN examples :
              i # j => Identity(examples[i]) # Identity(examples[j])
    /\ (pc \notin {"start", "prepared"}
          /\ \E i, j \in DOMAIN manifests :
                i # j /\ manifests[i].Object = manifests[j].Object) => pc = "failed"

\* a JSON value that is a chain of objects with one key each, down to a scalar
RECURSIVE IsChain(_)
IsChain(j) ==
    \/ j.t = "string"
    \/ /\ j.t = "object"
       /\ Cardinality(DOMAIN j.m) = 1
       /\ \A k \in DOMAIN j.m : IsChain(j.m[k])
\* the keys of a chain from the root to the leaf, each after a dot
RECURSIVE ChainKey(_)
ChainKey(j) ==
    IF j.t = "object"
    THEN LET k == CHOOSE x \in DOMAIN j.m : TRUE IN <<".", k>> \o ChainKey(j.m[k])
    ELSE <<>>
RECURSIVE ChainValue(_)
ChainValue(j) ==
    IF j.t = "object" THEN ChainValue(j.m[CHOOSE x \in DOMAIN j.m : TRUE]) ELSE j.v

ValidEnvValues == {e \in EnvValues : e = EnvUnset \/ UnmarshalOk(e)}

\* C25: a second call of Render on the same test case, resource list and
\* skip flags returns the same file names with the same contents as the
\* first, in whatever order its loop visits the templates.
C25_RenderIdempotent ==
    [][(pc = "rendered" /\ pc' = "rerendered") => files' = files]_vars

\* a second call that visited a skipped template first, on two resources
C25_Witness ==
    /\ pc = "rerendered"
    /\ Len(examples) = 2
    /\ tc.SkipUpdate
    /\ visited[1] = "01-update.yaml"
    /\ DOMAIN files = {"00-apply.yaml", "00-assert.yaml", "02-import.yaml",
                       "02-assert.yaml", "03-delete.yaml", "03-assert.yaml"}

\* C26: the resource built for a manifest depends on the manifest and the
\* options of the run only: it is a resource the same manifest and options
\* give under every value of the environment.
C26_ExtractionPure ==
    PlanBuilt =>
        \A i \in DOMAIN examples : \A env \in ValidEnvValues :
            examples[i] \in Examples(manifests[i], options, env)

\* C27: a call of Render, whether it returns files or an error, leaves the
\* test case and the resource list as they were before the call.
C27_PlanUnchanged ==
    [][(pc = "render" /\ pc' \in {"rendered", "failed"}) =>
          (tc' = tc /\ examples' = examples)]_vars

\* Render has returned files for a list of two resources with hooks
C27_Witness ==
    /\ pc = "rendered"
    /\ Len(examples) = 2
    /\ examples[2].Name = "hooked-bucket"
    /\ tc.SetupScriptPath # ""
    /\ "00-apply.yaml" \in DOMAIN files

\* C28: with the only-clean-uptest-resources option the wait for the
\* deletion of the managed resources addresses the resources that carry the
\* test marker, and all managed resources without the option.
C28_OnlyCleanScope ==
    (pc \in {"running", "done"} /\ "03-assert.yaml" \in DOMAIN files) =>
        \A k \in DOMAIN files["03-assert.yaml"].entries :
            LET e == files["03-assert.yaml"].entries[k] IN
            e.op = "wait-delete-managed" =>
                e.arg = IF options.OnlyCleanUptestResources THEN "uptest-marked" ELSE "--all"

\* C29: two resources of a plan with the same update parameter text have the
\* same UpdateAssertKey and UpdateAssertValue, also when the JSON object has
\* several keys at one level.
C29_ConversionDeterministic ==
    PlanBuilt =>
        \A i, j \in DOMAIN examples :
            UpdateParameterOf(manifests[i], envUpdate) = UpdateParameterOf(manifests[j], envUpdate) =>
                /\ examples[i].UpdateAssertKey = examples[j].UpdateAssertKey
                /\ examples[i].UpdateAssertValue = examples[j].UpdateAssertValue

\* the pairs of neighbours of a list, in order
ConsecutivePairs(docs) == [k \in 1..(Len(docs) - 1) |-> <<docs[k], docs[k + 1]>>]

\* GetBreakingChanges has returned, with a map or with an error
DiffEnded == dpc \in {"returned", "failed"}

\* what a map returned for the CRD must be
DiffResult ==
    dpc = "returned" =>
        IF Len(crd) < 2
        THEN diffMap = NoDiffs /\ compared = <<>>
        ELSE /\ Len(selfDocs) = Len(crd)
             /\ {d.Origin : d \in Range(selfDocs)} = DOMAIN crd
             /\ compared = ConsecutivePairs(selfDocs)
             /\ DOMAIN diffMap = {selfDocs[k].Version : k \in 2..Len(selfDocs)}
             /\ \A v \in DOMAIN diffMap :
                   \E k \in DOMAIN compared :
                       diffMap[v] = compared[k] /\ compared[k][2].Version = v
             /\ (\A i, j \in DOMAIN crd : crd[i].Name = crd[j].Name => i = j)
                    => Cardinality(DOMAIN diffMap) = Len(crd) - 1

\* C30: GetBreakingChanges returns for a CRD with any number of versions;
\* the map returned is empty for fewer than two versions, and otherwise has
\* one entry for each pair of neighbouring versions, compared once, under
\* the name of the later version of the pair (n-1 entries when the names
\* differ).
C30_Terminates == <>(DiffEnded /\ DiffResult)

\* a map of two entries returned for three versions declared out of order
C30_Witness ==
    /\ dpc = "returned"
    /\ Len(crd) = 3
    /\ crd[1].Name = "v1" /\ crd[2].Name = "v1beta1" /\ crd[3].Name = "v1alpha1"
    /\ Len(compared) = 2
    /\ DOMAIN diffMap = {"v1beta1", "v1"}
    /\ diffMap["v1"][1].Version = "v1beta1"

====
